---- MODULE Spec2Model ----
(***************************************************************************)
(* Model of the GoogleGenAIProvider adapter: the provider class of         *)
(* src/unnamed/part_000 (generateText and streamText) and the provider     *)
(* class of src/packages/google-ai/src/index.ts (generateText).            *)
(*                                                                         *)
(* Encoding of JavaScript values:                                          *)
(*   - an optional value (T | undefined) is a sequence of length <= 1:     *)
(*     <<>> is undefined, <<v>> is the value v;                            *)
(*   - a string is a sequence of one-character strings, so that += and     *)
(*     "" are concatenation and the empty sequence;                        *)
(*   - the async function start(controller) of the ReadableStream is one   *)
(*     flow of control per call; pc is its position, and every action is   *)
(*     the code between two suspension points (an await).                  *)
(* The ReadableStream controller follows the WHATWG Streams standard:      *)
(* enqueue() and close() throw a TypeError once the stream is no longer    *)
(* readable, error() is then a no-op, and cancel() closes the stream.      *)
(***************************************************************************)
EXTENDS Integers, Sequences, FiniteSets, TLC

VARIABLES
    call,         \* per streamText call: options, backend history, position, output stream
    streamState,  \* the accumulation objects { accumulatedText, finalUsage }
    gen,          \* the generateText call in progress
    provider,     \* the provider instance: which class, whether constructed, its client
    request       \* the request a call builds and submits to the backend client

vars == <<call, streamState, gen, provider, request>>

\* ------------------------------------------------------------------ bounds
MaxChunks == 3
MaxChunksConc == 2
MaxMessages == 2

\* ------------------------------------------------------------------ values
None == <<>>
Some(x) == <<x>>
IsSome(o) == Len(o) > 0
Get(o) == o[1]

Str_He == <<"H", "e">>
Str_llo == <<"l", "l", "o">>
Str_Hi == <<"H", "i", "!">>
EmptyStr == <<>>

Meta(p, c, t) == [promptTokenCount |-> p, candidatesTokenCount |-> c, totalTokenCount |-> t]

\* usage metadata the backend may attach to a response or chunk
Metas ==
    { None,
      Some(Meta(Some(0), Some(0), Some(0))),
      Some(Meta(Some(3), Some(2), Some(5))),
      Some(Meta(Some(1), None, None)),
      Some(Meta(Some(10), Some(5), Some(15))) }

Chunk(text, meta, pf, rid) ==
    [text |-> text, usageMetadata |-> meta, promptFeedback |-> pf, responseId |-> rid]

\* the chunks the backend generator may yield
Chunks ==
    { Chunk(Some(Str_He), None, FALSE, Some("r1")),
      Chunk(Some(Str_llo), Some(Meta(Some(3), Some(2), Some(5))), FALSE, None),
      Chunk(Some(EmptyStr), Some(Meta(Some(1), None, None)), FALSE, None),
      Chunk(None, Some(Meta(Some(0), Some(0), Some(0))), TRUE, None),
      Chunk(Some(Str_He), Some(Meta(Some(1), None, None)), TRUE, Some("r2")) }

ConcChunks ==
    { Chunk(Some(Str_He), None, FALSE, Some("r1")),
      Chunk(Some(Str_llo), Some(Meta(Some(3), Some(2), Some(5))), FALSE, None),
      Chunk(None, Some(Meta(Some(1), None, None)), FALSE, None) }

Streams == {1, 2}

\* which callbacks the caller registered in StreamTextOptions
Options ==
    [onChunk : BOOLEAN, onStepFinish : BOOLEAN, onFinish : BOOLEAN, onError : BOOLEAN]

AllCallbacks ==
    [onChunk |-> TRUE, onStepFinish |-> TRUE, onFinish |-> TRUE, onError |-> TRUE]

Event(ev, arg) == [ev |-> ev, arg |-> arg]

\* ------------------------------------------------------------------ helpers of the provider

\* `x ?? 0` on an optional count
OrZero(o) == IF IsSome(o) THEN Get(o) ELSE 0

_getUsageInfo(usageInfo) ==
    IF ~IsSome(usageInfo) THEN None
    ELSE LET promptTokens == OrZero(Get(usageInfo).promptTokenCount)
             completionTokens == OrZero(Get(usageInfo).candidatesTokenCount)
             totalTokens == OrZero(Get(usageInfo).totalTokenCount)
         IN IF promptTokens > 0 \/ completionTokens > 0 \/ totalTokens > 0
            THEN Some([promptTokens |-> promptTokens,
                       completionTokens |-> completionTokens,
                       totalTokens |-> totalTokens])
            ELSE None

\* `chunkResponse.responseId || ""`
IdOf(chunkResponse) ==
    IF IsSome(chunkResponse.responseId) THEN Get(chunkResponse.responseId) ELSE ""

\* a step only for a chunk that carries a response id
createStepNeedsId(chunkResponse, role, usage) ==
    LET text == chunkResponse.text
    IN IF IsSome(text) /\ Get(text) # EmptyStr /\ IsSome(chunkResponse.responseId)
       THEN Some([id |-> IdOf(chunkResponse), type |-> "text", content |-> Get(text),
                  role |-> role, usage |-> usage])
       ELSE None

_createStepFromChunk(chunkResponse, role, usage) ==
    LET text == chunkResponse.text
    IN IF IsSome(text) /\ Get(text) # EmptyStr
       THEN Some([id |-> IdOf(chunkResponse), type |-> "text", content |-> Get(text),
                  role |-> role, usage |-> usage])
       ELSE None

\* ------------------------------------------------------------------ streamText

\* a call that has not been made yet. log is the history of the call: the chunks taken
\* from the generator ("chunk", "exhausted"), the callbacks invoked, the controller
\* calls made and the consumer's cancel; processed counts the chunks whose text was
\* handled without a throw. rs is the state of the output stream, queue the number of
\* chunks enqueued and not yet read, closeRequested whether controller.close() was
\* called while chunks were unread, readPending whether the consumer waits in a
\* read(); pending is the error on its way to the catch block while the for-await
\* loop closes the generator
IdleCall ==
    [opts |-> AllCallbacks, chunks |-> <<>>, pc |-> "idle", rs |-> "none",
     storedError |-> None, cancelled |-> FALSE, log |-> <<>>, inflight |-> {},
     err |-> None, processed |-> 0, warnings |-> 0, queue |-> 0,
     closeRequested |-> FALSE, readPending |-> FALSE, pending |-> None]

FreshState == [accumulatedText |-> EmptyStr, finalUsage |-> None]

\* the accumulation object a call uses: `const streamState = {...}` is allocated per call
StateKeyShared(s) == 1
StateKey(s) == s

\* invoke a caller callback: it is running from now until it settles
Invoke(f, cb, arg) ==
    [f EXCEPT !.log = Append(@, Event(cb, arg)),
              !.inflight = @ \cup {Len(f.log) + 1}]

\* controller.error(e): errors a readable stream, dropping the unread chunks and
\* rejecting a pending read; no-op otherwise
controllerError(f, e) ==
    LET g == [f EXCEPT !.log = Append(@, Event("controller.error", e)), !.pc = "done"]
    IN IF f.rs = "readable"
       THEN [g EXCEPT !.rs = "errored", !.storedError = Some(e), !.queue = 0,
                      !.readPending = FALSE]
       ELSE g

\* the error is swallowed
catchErrorSilently(f, e) == [f EXCEPT !.err = Some(e), !.pc = "done"]

\* the catch block of start(): onError if registered (awaited), then controller.error
catchError(f, e) ==
    LET g == [f EXCEPT !.err = Some(e)]
    IN IF g.opts.onError
       THEN [Invoke(g, "onError", e) EXCEPT !.pc = "onError"]
       ELSE controllerError(g, e)

\* the stream is left open
closeSkipped(f) == [f EXCEPT !.pc = "done"]

\* controller.close() on a readable stream: closes it if no chunk is unread, else
\* only requests the close (the stream closes when the last chunk is read); throws a
\* TypeError on a stream that is not readable or whose close was requested
controllerClose(f) ==
    IF f.rs = "readable" /\ ~f.closeRequested
    THEN LET g == [f EXCEPT !.log = Append(@, Event("controller.close", "")),
                            !.pc = "done"]
         IN IF f.queue = 0
            THEN [g EXCEPT !.rs = "closed", !.readPending = FALSE]
            ELSE [g EXCEPT !.closeRequested = TRUE]
    ELSE catchError(f, "TypeError")

\* _finalizeStream from the onFinish test on
finalizeFromFinish(f, st) ==
    IF f.opts.onFinish
    THEN [Invoke(f, "onFinish", [text |-> st.accumulatedText]) EXCEPT !.pc = "onFinish"]
    ELSE controllerClose(f)

\* the terminal step is skipped
finalizeWithoutStep(f, st) == finalizeFromFinish(f, st)

\* the terminal step is skipped when no text was accumulated
finalizeSkipsEmpty(f, st) ==
    IF f.opts.onStepFinish /\ st.accumulatedText # EmptyStr
    THEN [Invoke(f, "onStepFinish",
                 [id |-> "", type |-> "text", content |-> st.accumulatedText,
                  role |-> "assistant", usage |-> st.finalUsage])
          EXCEPT !.pc = "onStepFinish"]
    ELSE finalizeFromFinish(f, st)

_finalizeStream(f, st) ==
    IF f.opts.onStepFinish
    THEN [Invoke(f, "onStepFinish",
                 [id |-> "", type |-> "text", content |-> st.accumulatedText,
                  role |-> "assistant", usage |-> st.finalUsage])
          EXCEPT !.pc = "onStepFinish"]
    ELSE finalizeFromFinish(f, st)

\* where start() is after `await options.onChunk(step)` was reached: suspended on it
NoAwaitOnChunk == "loop"
awaitOnChunk == "onChunk"

\* `state.accumulatedText += textChunk`
AccumulatePrepend(acc, textChunk) == textChunk \o acc
Accumulate(acc, textChunk) == acc \o textChunk

\* `if (chunkUsage) state.finalUsage = chunkUsage`
CaptureUsageAlways(finalUsage, chunkUsage) == chunkUsage
CaptureUsage(finalUsage, chunkUsage) ==
    IF IsSome(chunkUsage) THEN chunkUsage ELSE finalUsage

\* the body of the for-await loop threw: the loop closes the generator, awaiting
\* streamGenerator.return(), before the error reaches the catch block
abruptCompletion(f, e) == [f EXCEPT !.pc = "generator.return", !.pending = Some(e)]

\* controller.enqueue(chunk) on a stream that takes it: a pending read gets the chunk,
\* else the chunk waits in the queue
controllerEnqueue(f, chunk) ==
    LET g == [f EXCEPT !.log = Append(@, Event("enqueue", chunk))]
    IN IF f.readPending
       THEN [g EXCEPT !.readPending = FALSE]
       ELSE [g EXCEPT !.queue = @ + 1]

\* the prompt feedback is treated as an error of the stream
promptFeedbackAborts(f, chunkResponse) ==
    IF chunkResponse.promptFeedback /\ f.opts.onError
    THEN catchError(f, "PromptFeedback")
    ELSE f

\* `if (chunkResponse.promptFeedback && options.onError) console.warn(...)`
handlePromptFeedback(f, chunkResponse) ==
    IF chunkResponse.promptFeedback /\ f.opts.onError
    THEN [f EXCEPT !.warnings = @ + 1]
    ELSE f

\* _processStreamChunk up to its first suspension: the pair <<call, state>> after it
_processStreamChunk(f0, st0, chunkResponse) ==
    LET f == [f0 EXCEPT !.chunks = Append(@, chunkResponse),
                        !.log = Append(@, Event("chunk", Len(f0.chunks) + 1))]
        textChunk == chunkResponse.text
        chunkUsage == _getUsageInfo(chunkResponse.usageMetadata)
        st1 == [st0 EXCEPT !.finalUsage = CaptureUsage(@, chunkUsage)]
    IN IF IsSome(textChunk) /\ Get(textChunk) # EmptyStr
       THEN IF f.rs # "readable" \/ f.closeRequested
            THEN <<abruptCompletion(f, "TypeError"), st1>>   \* controller.enqueue throws
            ELSE LET g == [controllerEnqueue(f, Get(textChunk)) EXCEPT !.processed = @ + 1]
                     st2 == [st1 EXCEPT !.accumulatedText = Accumulate(@, Get(textChunk))]
                     step == _createStepFromChunk(chunkResponse, "assistant", chunkUsage)
                 IN IF g.opts.onChunk /\ IsSome(step)
                    THEN <<[Invoke(g, "onChunk", Get(step)) EXCEPT !.pc = awaitOnChunk], st2>>
                    ELSE <<handlePromptFeedback(g, chunkResponse), st2>>
       ELSE <<handlePromptFeedback([f EXCEPT !.processed = @ + 1], chunkResponse), st1>>

\* streamText(options): the request is submitted, the accumulation state is allocated
\* and start(controller) runs up to its first `for await`
StreamTextCallWith(s, O) ==
    /\ call[s].pc = "idle"
    /\ \E o \in O :
         call' = [call EXCEPT ![s] = [IdleCall EXCEPT !.opts = o, !.pc = "loop",
                                                      !.rs = "readable"]]
    /\ streamState' = [streamState EXCEPT ![StateKey(s)] = FreshState]
    /\ UNCHANGED <<gen, provider, request>>

StreamTextCall(s) == StreamTextCallWith(s, Options)

\* the generator yields a chunk: one iteration of the for-await loop
ProcessChunkFrom(s, C, max) ==
    /\ call[s].pc = "loop"
    /\ Len(call[s].chunks) < max
    /\ \E c \in C :
         LET r == _processStreamChunk(call[s], streamState[StateKey(s)], c)
         IN /\ call' = [call EXCEPT ![s] = r[1]]
            /\ streamState' = [streamState EXCEPT ![StateKey(s)] = r[2]]
    /\ UNCHANGED <<gen, provider, request>>

ProcessChunk(s) == ProcessChunkFrom(s, Chunks, MaxChunks)

\* the generator is exhausted: _finalizeStream up to its first suspension
Exhaust(s) ==
    /\ call[s].pc = "loop"
    /\ call' = [call EXCEPT ![s] =
         _finalizeStream([call[s] EXCEPT !.log = Append(@, Event("exhausted", ""))],
                         streamState[StateKey(s)])]
    /\ UNCHANGED <<streamState, gen, provider, request>>

\* the generator throws
BackendError(s) ==
    /\ call[s].pc = "loop"
    /\ call' = [call EXCEPT ![s] = catchError(call[s], "BackendError")]
    /\ UNCHANGED <<streamState, gen, provider, request>>

Settled(f) == [f EXCEPT !.inflight = {}]

\* the awaited callback returns and start() resumes after the await: after onChunk
\* with the rest of _processStreamChunk
CallbackReturns(s) ==
    /\ call[s].pc \in {"onChunk", "onStepFinish", "onFinish", "onError"}
    /\ LET f == Settled(call[s])
           st == streamState[StateKey(s)]
       IN call' = [call EXCEPT ![s] =
            CASE f.pc = "onChunk" ->
                   handlePromptFeedback([f EXCEPT !.pc = "loop"], f.chunks[Len(f.chunks)])
              [] f.pc = "onStepFinish" -> finalizeFromFinish(f, st)
              [] f.pc = "onFinish" -> controllerClose(f)
              [] f.pc = "onError" -> controllerError(f, Get(f.err))]
    /\ UNCHANGED <<streamState, gen, provider, request>>

\* onError threw inside the catch block: the promise of start() rejects, and the
\* stream, if still readable, is errored with the error of onError, its unread chunks
\* dropped and a pending read rejected; controller.error(error) is not reached
startRejects(f, e) ==
    LET g == [f EXCEPT !.pc = "done"]
    IN IF f.rs = "readable"
       THEN [g EXCEPT !.rs = "errored", !.storedError = Some(e), !.queue = 0,
                      !.readPending = FALSE]
       ELSE g

\* an error thrown by the terminal onStepFinish is noted and start() goes on
CallbackThrowsLate(s) ==
    /\ call[s].pc \in {"onChunk", "onStepFinish", "onFinish", "onError"}
    /\ LET f == Settled(call[s])
       IN call' = [call EXCEPT ![s] =
            CASE f.pc = "onStepFinish" ->
                   finalizeFromFinish([f EXCEPT !.err = Some("CallbackError")],
                                      streamState[StateKey(s)])
              [] f.pc = "onChunk" -> abruptCompletion(f, "CallbackError")
              [] f.pc = "onFinish" -> catchError(f, "CallbackError")
              [] f.pc = "onError" -> startRejects(f, "CallbackError")]
    /\ UNCHANGED <<streamState, gen, provider, request>>

\* the awaited callback throws: onChunk inside the loop body, the terminal callbacks
\* after the loop, both inside the try block; onError inside the catch block
CallbackThrows(s) ==
    /\ call[s].pc \in {"onChunk", "onStepFinish", "onFinish", "onError"}
    /\ LET f == Settled(call[s])
       IN call' = [call EXCEPT ![s] =
            CASE f.pc = "onChunk" -> abruptCompletion(f, "CallbackError")
              [] f.pc \in {"onStepFinish", "onFinish"} -> catchError(f, "CallbackError")
              [] f.pc = "onError" -> startRejects(f, "CallbackError")]
    /\ UNCHANGED <<streamState, gen, provider, request>>

\* streamGenerator.return() settles and the catch block runs up to its first suspension
GeneratorReturned(s) ==
    /\ call[s].pc = "generator.return"
    /\ call' = [call EXCEPT ![s] =
         catchError([call[s] EXCEPT !.pending = None], Get(call[s].pending))]
    /\ UNCHANGED <<streamState, gen, provider, request>>

\* the consumer calls read() on the output stream: it takes the oldest unread chunk,
\* which closes a stream whose close was requested when it was the last one, or waits
Read(s) ==
    /\ call[s].rs = "readable"
    /\ ~call[s].readPending
    /\ call' = [call EXCEPT ![s] =
         IF call[s].queue = 0
         THEN [call[s] EXCEPT !.readPending = TRUE]
         ELSE IF call[s].closeRequested /\ call[s].queue = 1
              THEN [call[s] EXCEPT !.queue = 0, !.rs = "closed"]
              ELSE [call[s] EXCEPT !.queue = @ - 1]]
    /\ UNCHANGED <<streamState, gen, provider, request>>

\* the consumer cancels the output stream: the stream is closed, cancel(reason) logs
Cancel(s) ==
    /\ call[s].rs = "readable"
    /\ call' = [call EXCEPT ![s].rs = "closed", ![s].cancelled = TRUE,
                            ![s].queue = 0, ![s].readPending = FALSE,
                            ![s].log = Append(@, Event("cancel", ""))]
    /\ UNCHANGED <<streamState, gen, provider, request>>

\* ------------------------------------------------------------------ constructor

Str_key == <<"k", "e", "y">>
Str_p == <<"p">>

\* GoogleGenAIProviderOptions: every field may be missing, a string may be empty
CtorOptions ==
    [apiKey : {None, Some(EmptyStr), Some(Str_key)},
     vertexai : {None, Some(FALSE), Some(TRUE)},
     project : {None, Some(EmptyStr), Some(Str_p)},
     location : {None, Some(EmptyStr), Some(Str_p)}]

\* JavaScript truthiness of an optional string and of an optional boolean
TruthyStr(o) == IsSome(o) /\ Get(o) # EmptyStr
TruthyBool(o) == IsSome(o) /\ Get(o)

hasApiKey(options) == TruthyStr(options.apiKey)

\* project alone completes the Vertex configuration
hasVertexWithoutLocation(options) ==
    TruthyBool(options.vertexai) /\ TruthyStr(options.project)
hasVertexAIConfig(options) ==
    TruthyBool(options.vertexai) /\ TruthyStr(options.project) /\ TruthyStr(options.location)

\* no instance yet, of the class of one file
NoProvider(impl) ==
    [impl |-> impl, state |-> "none", ai |-> None, clients |-> 0, err |-> None,
     options |-> None]

\* new GoogleGenAIProvider(options): throws, or creates the client
constructor(p, options) ==
    IF ~hasApiKey(options) /\ ~hasVertexAIConfig(options)
    THEN [p EXCEPT !.state = "failed", !.err = Some("ConfigurationError"),
                   !.options = Some(options)]
    ELSE [p EXCEPT !.state = "constructed", !.ai = Some(options), !.clients = @ + 1,
                   !.options = Some(options)]

\* the provider the tests construct: { apiKey: "test-api-key" }
TestProvider(impl) ==
    constructor(NoProvider(impl),
                [apiKey |-> Some(Str_key), vertexai |-> None, project |-> None,
                 location |-> None])

\* ------------------------------------------------------------------ request translation

KnownRoles == {"user", "assistant", "system", "tool"}
\* MessageRole values a caller may pass; "function" is none of the four
Roles == KnownRoles \cup {"function"}

TextPart(t) == [type |-> "text", text |-> t]
ImagePart == [type |-> "image", text |-> EmptyStr]

StringContent(t) == [kind |-> "string", text |-> t, parts |-> <<>>]
PartsContent(ps) == [kind |-> "parts", text |-> EmptyStr, parts |-> ps]

Contents ==
    { StringContent(Str_He),
      PartsContent(<<>>),
      PartsContent(<<TextPart(Str_He), TextPart(Str_llo)>>),
      PartsContent(<<TextPart(Str_llo), ImagePart, TextPart(Str_He)>>),
      PartsContent(<<ImagePart>>) }

Messages == [role : Roles, content : Contents]

MessageListsUpTo(n) ==
    UNION { [1..k -> Messages] : k \in 0..n }

\* tool is passed on as the backend's function role
toGoogleRoleToolAsFunction(role) ==
    CASE role = "user" -> "user"
      [] role = "assistant" -> "model"
      [] role = "system" -> "model"
      [] role = "tool" -> "function"
      [] OTHER -> "user"

\* an unknown role is passed on unchanged
toGoogleRolePassUnknown(role) ==
    CASE role = "user" -> "user"
      [] role = "assistant" -> "model"
      [] role = "system" -> "model"
      [] role = "tool" -> "model"
      [] OTHER -> role

toGoogleRole(role) ==
    CASE role = "user" -> "user"
      [] role = "assistant" -> "model"
      [] role = "system" -> "model"
      [] role = "tool" -> "model"
      [] OTHER -> "user"

\* the outcome of a function that may throw
Ok(v) == [ok |-> TRUE, val |-> v, err |-> ""]
Thrown(e) == [ok |-> FALSE, val |-> <<>>, err |-> e]

\* part_000: text parts pass, other parts are filtered out
supportedParts(parts) ==
    LET texts == SelectSeq(parts, LAMBDA part : part.type = "text")
    IN [i \in 1..Len(texts) |-> [text |-> texts[i].text]]

\* index.ts: `[Unsupported part type: ${part.type}]`, a string given by its fragments
Placeholder(type) == <<"[Unsupported part type: ", type, "]">>

\* index.ts: text parts pass, other parts become a placeholder text part
index_mappedParts(parts) ==
    [i \in 1..Len(parts) |->
        IF parts[i].type = "text" THEN [text |-> parts[i].text]
        ELSE [text |-> Placeholder(parts[i].type)]]

toMessage(message) ==
    LET role == toGoogleRole(message.role)
    IN IF message.content.kind = "string"
       THEN IF role # "user" /\ role # "model"
            THEN Thrown("InvalidRole")
            ELSE Ok([role |-> role, parts |-> <<[text |-> message.content.text]>>])
       ELSE LET parts == supportedParts(message.content.parts)
            IN IF Len(parts) = 0
               THEN Ok([role |-> role, parts |-> <<[text |-> EmptyStr]>>])
               ELSE IF role # "user" /\ role # "model"
                    THEN Thrown("InvalidRole")
                    ELSE Ok([role |-> role, parts |-> parts])

index_toMessage(message) ==
    LET role == toGoogleRole(message.role)
    IN IF role # "user" /\ role # "model"
       THEN Thrown("InvalidRole")
       ELSE IF message.content.kind = "string"
            THEN Ok([role |-> role, parts |-> <<[text |-> message.content.text]>>])
            ELSE Ok([role |-> role, parts |-> index_mappedParts(message.content.parts)])

toMessageOf(impl, message) ==
    IF impl = "index" THEN index_toMessage(message) ELSE toMessage(message)

\* the translations are sent in reverse order
translateReversed(impl, messages) ==
    [i \in 1..Len(messages) |-> toMessageOf(impl, messages[Len(messages) + 1 - i])]

\* `options.messages.map(this.toMessage)`: the outcome per message, in order
translate(impl, messages) ==
    [i \in 1..Len(messages) |-> toMessageOf(impl, messages[i])]

\* ------------------------------------------------------------------ request config

\* a JavaScript object is a function from its own keys to optional values: a key may
\* be present with the value undefined
EmptyObject == <<>>

\* `options.provider`: undefined, or the knobs it sets and its extraOptions bag
ProviderOpts(knobs, extra) == [knobs |-> knobs, extraOptions |-> extra]

ProviderOptionsSet ==
    { None,
      Some(ProviderOpts(EmptyObject, None)),
      Some(ProviderOpts([temperature |-> Some("0.7"), topP |-> Some("0.9"),
                         stopSequences |-> Some("END"), seed |-> Some("123456")],
                        Some([customOption |-> Some("value")]))),
      Some(ProviderOpts([topK |-> Some("40"), maxOutputTokens |-> Some("256")], None)),
      Some(ProviderOpts([temperature |-> Some("0.7")],
                        Some([temperature |-> Some("0.2")]))),
      Some(ProviderOpts([temperature |-> None], Some([customOption |-> None]))),
      Some(ProviderOpts(EmptyObject, Some(EmptyObject))) }

\* `options.provider || {}`
providerOptionsOf(provider_) ==
    IF IsSome(provider_) THEN Get(provider_) ELSE ProviderOpts(EmptyObject, None)

\* `providerOptions.<knob>`
Lookup(po, k) == IF k \in DOMAIN po.knobs THEN po.knobs[k] ELSE None

\* `{ ...a, ...b }`
Spread(a, b) ==
    [k \in (DOMAIN a) \cup (DOMAIN b) |-> IF k \in DOMAIN b THEN b[k] ELSE a[k]]

\* the knobs the config literal of part_000 names
Knobs ==
    {"temperature", "topP", "stopSequences", "seed", "presencePenalty", "frequencyPenalty"}

\* the knobs the config literal of index.ts names
index_Knobs ==
    Knobs \cup {"topK", "maxOutputTokens", "safetySettings", "candidateCount",
                "responseMimeType", "responseSchema"}

\* the object literal { temperature: providerOptions.temperature, ..., ...extraOptions }
configLiteral(K, po) ==
    Spread([k \in K |-> Lookup(po, k)],
           IF IsSome(po.extraOptions) THEN Get(po.extraOptions) ELSE EmptyObject)

\* Object.entries(...).reduce: only the entries whose value is not undefined
definedEntries(obj) ==
    [k \in {j \in DOMAIN obj : IsSome(obj[j])} |-> obj[k]]

\* the config of a call
configOf(impl, op, po) ==
    IF impl = "index" THEN configLiteral(index_Knobs, po)
    ELSE IF op = "streamText" THEN definedEntries(configLiteral(Knobs, po))
    ELSE configLiteral(Knobs, po)

\* { model, contents, ...(Object.keys(config).length > 0 && { config }) }
generationParams(contents, config) ==
    [model |-> "gemini-2.0-flash-001", contents |-> contents,
     config |-> IF DOMAIN config # {} THEN Some(config) ELSE None]

\* ------------------------------------------------------------------ the calls up to the backend

IdleRequest ==
    [pc |-> "idle", op |-> "", messages |-> <<>>, provider |-> None, params |-> None,
     err |-> None, backendCalls |-> 0, callbacks |-> 0]

\* the error is caught and the method returns
swallowed(r, e) == [r EXCEPT !.pc = "returned", !.err = Some(e)]

\* the async method throws: its promise rejects, nothing else has happened
rejected(r, e) == [r EXCEPT !.pc = "failed", !.err = Some(e)]

\* generateText / streamText from the call to the submission of the request
submitRequest(impl, op, messages, provider_) ==
    LET r == [IdleRequest EXCEPT !.op = op, !.messages = messages, !.provider = provider_]
        outcomes == translate(impl, messages)
        bad == {i \in 1..Len(outcomes) : ~outcomes[i].ok}
        contents == [i \in 1..Len(outcomes) |-> outcomes[i].val]
    IN IF bad # {}
       THEN rejected(r, outcomes[CHOOSE i \in bad : \A j \in bad : i <= j].err)
       ELSE [r EXCEPT !.pc = "submitted", !.backendCalls = 1,
                      !.params = Some(generationParams(contents,
                                        configOf(impl, op, providerOptionsOf(provider_))))]

\* index.ts: streamText throws at once
index_streamText(messages, provider_) ==
    rejected([IdleRequest EXCEPT !.op = "streamText", !.messages = messages,
                                 !.provider = provider_], "NotImplemented")

streamTextRequest(impl, messages, provider_) ==
    IF impl = "index" THEN index_streamText(messages, provider_)
    ELSE submitRequest(impl, "streamText", messages, provider_)

\* generateObject / streamObject: `throw new Error("... is not implemented ...")`
notImplemented(op) == rejected([IdleRequest EXCEPT !.op = op], "NotImplemented")

GenerateTextRequestFrom(M, P) ==
    /\ provider.state = "constructed"
    /\ request.pc = "idle"
    /\ \E ms \in M, po \in P :
         request' = submitRequest(provider.impl, "generateText", ms, po)
    /\ UNCHANGED <<call, streamState, gen, provider>>

StreamTextRequestFrom(M, P) ==
    /\ provider.state = "constructed"
    /\ request.pc = "idle"
    /\ \E ms \in M, po \in P :
         request' = streamTextRequest(provider.impl, ms, po)
    /\ UNCHANGED <<call, streamState, gen, provider>>

GenerateTextRequest ==
    GenerateTextRequestFrom(MessageListsUpTo(MaxMessages), ProviderOptionsSet)

StreamTextRequest ==
    StreamTextRequestFrom(MessageListsUpTo(MaxMessages), ProviderOptionsSet)

GenerateObject ==
    /\ provider.state = "constructed"
    /\ request.pc = "idle"
    /\ request' = notImplemented("generateObject")
    /\ UNCHANGED <<call, streamState, gen, provider>>

StreamObject ==
    /\ provider.state = "constructed"
    /\ request.pc = "idle"
    /\ request' = notImplemented("streamObject")
    /\ UNCHANGED <<call, streamState, gen, provider>>

\* ------------------------------------------------------------------ generateText

Candidate(fr) == [finishReason |-> fr]

\* `candidates` of a response: undefined, empty, or a list of candidates
CandidateLists ==
    { None,
      Some(<<>>),
      Some(<<Candidate(Some("STOP"))>>),
      Some(<<Candidate(None)>>),
      Some(<<Candidate(Some("MAX_TOKENS")), Candidate(Some("STOP"))>>) }

Response(text, meta, cands, rid) ==
    [text |-> text, usageMetadata |-> meta, candidates |-> cands, responseId |-> rid]

\* the responses the backend may return to generateContent
Responses ==
    { Response(t, m, c, r) :
        t \in {None, Some(EmptyStr), Some(Str_Hi), Some(Str_He)},
        m \in Metas, c \in CandidateLists, r \in {None, Some("r1")} }

\* a generateText call that has not been made yet, on the provider class of one file
IdleGenOf(impl) ==
    [impl |-> impl, pc |-> "idle", onStepFinish |-> FALSE, resp |-> None,
     log |-> <<>>, result |-> None, err |-> None]

\* `result.candidates?.[0]?.finishReason?.toString()`
LastFinishReason(candidates) ==
    IF IsSome(candidates) /\ Len(Get(candidates)) > 0
    THEN Get(candidates)[Len(Get(candidates))].finishReason
    ELSE None
FirstFinishReason(candidates) ==
    IF IsSome(candidates) /\ Len(Get(candidates)) > 0
    THEN Get(candidates)[1].finishReason
    ELSE None

\* `responseText ?? ""`
OrEmpty(text) == IF IsSome(text) THEN text ELSE Some(EmptyStr)

\* the ProviderTextResponse of part_000
providerResponse(result) ==
    [provider |-> result,
     text |-> OrEmpty(result.text),
     usage |-> _getUsageInfo(result.usageMetadata),
     finishReason |-> FirstFinishReason(result.candidates)]

\* index.ts: `if (text)`, id "" and the usage it is handed
index_createStepFromChunk(chunkResponse, role, usage) ==
    LET text == chunkResponse.text
    IN IF IsSome(text) /\ Get(text) # EmptyStr
       THEN Some([id |-> "", type |-> "text", content |-> Get(text),
                  role |-> role, usage |-> usage])
       ELSE None

\* a count that is undefined where the caller expects a number
UndefinedCount == 0 - 1

\* the ProviderTextResponse of index.ts: usage is built from the raw metadata
index_providerResponse(result) ==
    LET usageInfo == result.usageMetadata
    IN [provider |-> result,
        text |-> OrEmpty(result.text),
        usage |-> IF IsSome(usageInfo)
                  THEN Some([promptTokens |->
                                 IF IsSome(Get(usageInfo).promptTokenCount)
                                 THEN Get(Get(usageInfo).promptTokenCount)
                                 ELSE UndefinedCount,
                             completionTokens |-> OrZero(Get(usageInfo).candidatesTokenCount),
                             totalTokens |-> OrZero(Get(usageInfo).totalTokenCount)])
                  ELSE None,
        finishReason |-> FirstFinishReason(result.candidates)]

\* the step generateText hands to onStepFinish, if any
stepOf(impl, result) ==
    IF impl = "index"
    THEN index_createStepFromChunk(result, "assistant", result.usageMetadata)
    ELSE _createStepFromChunk(result, "assistant", _getUsageInfo(result.usageMetadata))

responseOf(impl, result) ==
    IF impl = "index" THEN index_providerResponse(result) ELSE providerResponse(result)

\* generateText(options): the request is built and submitted
GenerateTextCall ==
    /\ gen.pc = "idle"
    /\ \E cb \in BOOLEAN : gen' = [gen EXCEPT !.pc = "backend", !.onStepFinish = cb]
    /\ UNCHANGED <<call, streamState, provider, request>>

\* generateContent resolves: the code up to `await options.onStepFinish(step)` or,
\* without a step to deliver, up to the return
BackendResponds ==
    /\ gen.pc = "backend"
    /\ \E result \in Responses :
         LET step == stepOf(gen.impl, result)
             g == [gen EXCEPT !.resp = Some(result)]
         IN gen' = IF g.onStepFinish /\ IsSome(step)
                   THEN [g EXCEPT !.pc = "onStepFinish",
                                  !.log = Append(@, Event("onStepFinish", Get(step)))]
                   ELSE [g EXCEPT !.pc = "returned",
                                  !.result = Some(responseOf(g.impl, result))]
    /\ UNCHANGED <<call, streamState, provider, request>>

\* generateContent rejects: nothing catches it
BackendFails ==
    /\ gen.pc = "backend"
    /\ gen' = rejected(gen, "BackendError")
    /\ UNCHANGED <<call, streamState, provider, request>>

\* onStepFinish returns and generateText returns its response
StepCallbackReturns ==
    /\ gen.pc = "onStepFinish"
    /\ gen' = [gen EXCEPT !.pc = "returned",
                          !.result = Some(responseOf(gen.impl, Get(gen.resp)))]
    /\ UNCHANGED <<call, streamState, provider, request>>

\* onStepFinish throws: nothing catches it
StepCallbackThrows ==
    /\ gen.pc = "onStepFinish"
    /\ gen' = rejected(gen, "CallbackError")
    /\ UNCHANGED <<call, streamState, provider, request>>

NextGen ==
    \/ GenerateTextCall
    \/ BackendResponds
    \/ BackendFails
    \/ StepCallbackReturns
    \/ StepCallbackThrows

\* generateText of the provider of part_000
InitGen ==
    /\ call = [s \in Streams |-> IdleCall]
    /\ streamState = [k \in Streams |-> FreshState]
    /\ gen = IdleGenOf("part_000")
    /\ provider = TestProvider("part_000")
    /\ request = IdleRequest

SpecGen == InitGen /\ [][NextGen]_vars

\* generateText of the provider of packages/google-ai/src/index.ts
InitIndex ==
    /\ call = [s \in Streams |-> IdleCall]
    /\ streamState = [k \in Streams |-> FreshState]
    /\ gen = IdleGenOf("index")
    /\ provider = TestProvider("index")
    /\ request = IdleRequest

SpecIndex == InitIndex /\ [][NextGen]_vars

\* ------------------------------------------------------------------ specifications

Init ==
    /\ call = [s \in Streams |-> IdleCall]
    /\ streamState = [k \in Streams |-> FreshState]
    /\ gen = IdleGenOf("part_000")
    /\ provider = TestProvider("part_000")
    /\ request = IdleRequest

Next ==
    \/ StreamTextCall(1)
    \/ ProcessChunk(1)
    \/ Exhaust(1)
    \/ BackendError(1)
    \/ CallbackReturns(1)
    \/ CallbackThrows(1)
    \/ GeneratorReturned(1)
    \/ Read(1)
    \/ Cancel(1)

Spec == Init /\ [][Next]_vars

\* two streamText calls on the same provider instance, their steps interleaved
ConcOptions ==
    { AllCallbacks,
      [onChunk |-> TRUE, onStepFinish |-> TRUE, onFinish |-> FALSE, onError |-> FALSE] }

NextConc ==
    \E s \in Streams :
        \/ StreamTextCallWith(s, ConcOptions)
        \/ ProcessChunkFrom(s, ConcChunks, MaxChunksConc)
        \/ Exhaust(s)
        \/ BackendError(s)
        \/ CallbackReturns(s)
        \/ Read(s)

SpecConc == Init /\ [][NextConc]_vars

\* the calls of a constructed provider, of either class
InitReq ==
    /\ call = [s \in Streams |-> IdleCall]
    /\ streamState = [k \in Streams |-> FreshState]
    /\ \E impl \in {"part_000", "index"} :
         /\ gen = IdleGenOf(impl)
         /\ provider = TestProvider(impl)
    /\ request = IdleRequest

NextReq ==
    \/ GenerateTextRequest
    \/ StreamTextRequest
    \/ GenerateObject
    \/ StreamObject

SpecReq == InitReq /\ [][NextReq]_vars

\* construction with any options, then the calls of the test suite on the instance
HelloMessages == { <<[role |-> "user", content |-> StringContent(Str_He)]>> }

Construct ==
    /\ provider.state = "none"
    /\ \E options \in CtorOptions : provider' = constructor(provider, options)
    /\ UNCHANGED <<call, streamState, gen, request>>

InitCtor ==
    /\ call = [s \in Streams |-> IdleCall]
    /\ streamState = [k \in Streams |-> FreshState]
    /\ \E impl \in {"part_000", "index"} :
         /\ gen = IdleGenOf(impl)
         /\ provider = NoProvider(impl)
    /\ request = IdleRequest

NextCtor ==
    \/ Construct
    \/ GenerateTextRequestFrom(HelloMessages, ProviderOptionsSet)
    \/ StreamTextRequestFrom(HelloMessages, ProviderOptionsSet)
    \/ GenerateObject
    \/ StreamObject

SpecCtor == InitCtor /\ [][NextCtor]_vars

\* `await this.ai.models.generateContentStream(generationParams)` rejects: streamText
\* throws before the ReadableStream is created
StreamSubmitFails(s) ==
    /\ call[s].pc = "idle"
    /\ \E o \in Options :
         call' = [call EXCEPT ![s] = rejected([IdleCall EXCEPT !.opts = o], "BackendError")]
    /\ UNCHANGED <<streamState, gen, provider, request>>

\* the single-shot call and the submission of a stream, on the provider of part_000
NextCalls ==
    \/ GenerateTextCall
    \/ BackendResponds
    \/ BackendFails
    \/ StepCallbackReturns
    \/ StepCallbackThrows
    \/ StreamSubmitFails(1)

SpecCalls == InitGen /\ [][NextCalls]_vars

\* one stream over a finite backend sequence whose callbacks all return: the generator
\* yields, ends or throws whenever start() awaits it, and an awaited callback returns
GeneratorStep(s) ==
    ProcessChunk(s) \/ Exhaust(s) \/ BackendError(s) \/ GeneratorReturned(s)

NextLive ==
    \/ StreamTextCall(1)
    \/ ProcessChunk(1)
    \/ Exhaust(1)
    \/ BackendError(1)
    \/ CallbackReturns(1)
    \/ GeneratorReturned(1)
    \/ Read(1)
    \/ Cancel(1)

SpecLive ==
    /\ Init
    /\ [][NextLive]_vars
    /\ WF_vars(GeneratorStep(1))
    /\ WF_vars(CallbackReturns(1))

\* ------------------------------------------------------------------ reference definitions
RECURSIVE ConcatAll(_)
ConcatAll(ts) == IF ts = <<>> THEN <<>> ELSE Head(ts) \o ConcatAll(Tail(ts))

HasText(c) == IsSome(c.text) /\ Get(c.text) # EmptyStr

\* the non-empty texts of a chunk sequence, in order
RECURSIVE NonEmptyTexts(_)
NonEmptyTexts(cs) ==
    IF cs = <<>> THEN <<>>
    ELSE IF HasText(Head(cs)) THEN <<Get(Head(cs).text)>> \o NonEmptyTexts(Tail(cs))
         ELSE NonEmptyTexts(Tail(cs))

Present(m) ==
    /\ IsSome(m)
    /\ \/ OrZero(Get(m).promptTokenCount) > 0
       \/ OrZero(Get(m).candidatesTokenCount) > 0
       \/ OrZero(Get(m).totalTokenCount) > 0

UsageOf(m) ==
    [promptTokens |-> OrZero(Get(m).promptTokenCount),
     completionTokens |-> OrZero(Get(m).candidatesTokenCount),
     totalTokens |-> OrZero(Get(m).totalTokenCount)]

\* the usage of the latest chunk that reports one, absent if none does
RECURSIVE LastUsage(_)
LastUsage(cs) ==
    IF cs = <<>> THEN None
    ELSE LET c == cs[Len(cs)]
         IN IF Present(c.usageMetadata) THEN Some(UsageOf(c.usageMetadata))
            ELSE LastUsage(SubSeq(cs, 1, Len(cs) - 1))

\* positions of the events of one kind in a call's history
At(f, kind) == {i \in 1..Len(f.log) : f.log[i].ev = kind}
ArgsOf(f, kind) ==
    LET es == SelectSeq(f.log, LAMBDA e : e.ev = kind)
    IN [i \in 1..Len(es) |-> es[i].arg]

Callbacks == {"onChunk", "onStepFinish", "onFinish", "onError"}
Before(I, J) == \A i \in I : \A j \in J : i < j

Hello == Str_He \o Str_llo
Usage325 == [promptTokens |-> 3, completionTokens |-> 2, totalTokens |-> 5]

\* ------------------------------------------------------------------ claims

\* C1: the terminal step, the finish event and the close of the output stream each
\* happen at most once, in that order, only after the backend sequence is exhausted
\* and after every onChunk delivery; and a call that ran to its end without an error
\* has delivered each registered one exactly once and closed the stream: the stream
\* is closed, or holds unread chunks and closes with the read of the last one.
C1_TerminalOrder ==
    LET f == call[1]
        S == At(f, "onStepFinish")
        F == At(f, "onFinish")
        K == At(f, "controller.close")
    IN /\ Cardinality(S) <= 1 /\ Cardinality(F) <= 1 /\ Cardinality(K) <= 1
       /\ Before(At(f, "exhausted"), S \cup F \cup K)
       /\ (S \cup F \cup K # {} => At(f, "exhausted") # {})
       /\ Before(At(f, "onChunk") \cup At(f, "enqueue") \cup At(f, "chunk"), S \cup F \cup K)
       /\ Before(S, F) /\ Before(F, K) /\ Before(S, K)
       /\ (f.pc = "done" /\ f.err = None =>
             /\ Cardinality(S) = (IF f.opts.onStepFinish THEN 1 ELSE 0)
             /\ Cardinality(F) = (IF f.opts.onFinish THEN 1 ELSE 0)
             /\ Cardinality(K) = 1
             /\ \/ f.rs = "closed"
                \/ f.rs = "readable" /\ f.closeRequested /\ f.queue > 0)

C1_Witness ==
    LET f == call[1]
    IN /\ f.pc = "done" /\ f.err = None /\ f.opts = AllCallbacks
       /\ Len(f.chunks) >= 2 /\ Cardinality(At(f, "onChunk")) >= 2
       /\ At(f, "onStepFinish") # {} /\ At(f, "onFinish") # {}
       /\ f.log[Len(f.log)].ev = "controller.close"

\* C2 (as stated): once an error is thrown inside start(), no further chunk is consumed
\* and neither the terminal step nor the finish event is delivered any more; onError,
\* if registered, is invoked exactly once with that error, and a stream that was not
\* cancelled is then errored with the same error, after onError.
C2_StateOnError ==
    LET f == call[1]
        E == At(f, "onError")
        X == At(f, "controller.error")
    IN /\ Cardinality(E) <= 1 /\ Cardinality(X) <= 1
       /\ (f.err = None => E = {} /\ X = {} /\ f.rs # "errored")
       /\ (f.err # None =>
             /\ Cardinality(E) = (IF f.opts.onError THEN 1 ELSE 0)
             /\ \A i \in E \cup X : f.log[i].arg = Get(f.err)
             /\ Before(E, X)
             /\ Before(At(f, "chunk") \cup At(f, "onChunk") \cup At(f, "onStepFinish")
                          \cup At(f, "onFinish"), E \cup X)
             /\ (f.err = Some("BackendError") =>
                    At(f, "onStepFinish") = {} /\ At(f, "onFinish") = {})
             /\ (f.pc = "done" =>
                    /\ At(f, "controller.close") = {}
                    /\ (~f.cancelled => f.rs = "errored" /\ f.storedError = f.err)))

\* C2, with the steps after the error: once an error was caught, the chunks consumed,
\* the error and the terminal deliveries never change again.
C2_ErrorPath ==
    /\ []C2_StateOnError
    /\ [][call[1].err # None =>
            /\ call[1]'.chunks = call[1].chunks
            /\ call[1]'.err = call[1].err
            /\ At(call[1]', "onStepFinish") = At(call[1], "onStepFinish")
            /\ At(call[1]', "onFinish") = At(call[1], "onFinish")]_vars

C2_Witness ==
    LET f == call[1]
    IN /\ f.pc = "done" /\ f.err = Some("BackendError") /\ f.opts.onError
       /\ f.opts.onStepFinish /\ f.opts.onFinish
       /\ Len(f.chunks) >= 1 /\ ~f.cancelled
       /\ f.rs = "errored" /\ f.storedError = Some("BackendError")
       /\ At(f, "onError") # {}

\* C3 (as stated): after the consumer cancels the output stream, no further chunk is
\* taken from the backend and no callback is delivered: every chunk taken and every
\* callback delivery of the call comes before the cancel.
C3_CancelIsTerminal ==
    LET f == call[1]
    IN Before(At(f, "chunk") \cup At(f, "onChunk") \cup At(f, "onStepFinish")
                 \cup At(f, "onFinish") \cup At(f, "onError"),
              At(f, "cancel"))

\* C4: accumulatedText is the concatenation of the texts enqueued so far, which are
\* the non-empty texts of the chunks processed so far; the terminal step and the
\* finish event carry the concatenation of all non-empty chunk texts.
C4_AccumulatedText ==
    LET f == call[1]
        acc == streamState[StateKey(1)].accumulatedText
    IN f.pc # "idle" =>
         /\ acc = ConcatAll(ArgsOf(f, "enqueue"))
         /\ acc = ConcatAll(NonEmptyTexts(SubSeq(f.chunks, 1, f.processed)))
         /\ \A i \in At(f, "onStepFinish") :
              f.log[i].arg.content = ConcatAll(NonEmptyTexts(f.chunks))
         /\ \A i \in At(f, "onFinish") :
              f.log[i].arg.text = ConcatAll(NonEmptyTexts(f.chunks))

C4_Witness ==
    LET f == call[1]
    IN /\ Len(f.chunks) = 2 /\ f.chunks[1].text = Some(Str_He)
       /\ f.chunks[2].text = Some(Str_llo)
       /\ streamState[StateKey(1)].accumulatedText = Hello
       /\ \E i \in At(f, "onStepFinish") : f.log[i].arg.content = Hello
       /\ \E i \in At(f, "onFinish") : f.log[i].arg.text = Hello

\* C5: finalUsage is the usage of the latest consumed chunk that reports one (absent
\* if none did), and the terminal step carries exactly that value.
C5_LastUsageWins ==
    LET f == call[1]
    IN f.pc # "idle" =>
         /\ streamState[StateKey(1)].finalUsage = LastUsage(f.chunks)
         /\ \A i \in At(f, "onStepFinish") : f.log[i].arg.usage = LastUsage(f.chunks)

C5_Witness ==
    LET f == call[1]
    IN /\ Len(f.chunks) = 3
       /\ Present(f.chunks[2].usageMetadata)
       /\ ~Present(f.chunks[3].usageMetadata) /\ IsSome(f.chunks[3].usageMetadata)
       /\ streamState[StateKey(1)].finalUsage = Some(Usage325)
       /\ \E i \in At(f, "onStepFinish") : f.log[i].arg.usage = Some(Usage325)

\* C6: at most one caller callback is running, and while one is running nothing else
\* happens in the call: no chunk is taken and no other callback or controller call
\* is made.
C6_NoOverlap ==
    LET f == call[1]
    IN /\ Cardinality(f.inflight) <= 1
       /\ \A i \in f.inflight :
            /\ f.log[i].ev \in Callbacks
            /\ \A j \in (i + 1)..Len(f.log) : f.log[j].ev = "cancel"

C6_Witness ==
    LET f == call[1]
    IN /\ Cardinality(At(f, "onChunk")) = 2 /\ f.inflight = {}
       /\ f.pc = "loop" /\ Len(f.chunks) = 2

\* C7: the texts enqueued, and the contents of the steps delivered to onChunk, are the
\* non-empty texts of the processed chunks in backend order, one per chunk, and each
\* onChunk delivery directly follows the enqueue of the same text.
C7_OrderPreserved ==
    LET f == call[1]
        want == NonEmptyTexts(SubSeq(f.chunks, 1, f.processed))
        steps == ArgsOf(f, "onChunk")
    IN f.pc # "idle" =>
         /\ ArgsOf(f, "enqueue") = want
         /\ (f.opts.onChunk => [i \in 1..Len(steps) |-> steps[i].content] = want)
         /\ (~f.opts.onChunk => steps = <<>>)
         /\ \A i \in At(f, "onChunk") :
              /\ i > 1
              /\ f.log[i - 1].ev = "enqueue"
              /\ f.log[i - 1].arg = f.log[i].arg.content

C7_Witness ==
    LET f == call[1]
    IN /\ f.opts.onChunk
       /\ ArgsOf(f, "enqueue") = <<Str_He, Str_llo, Str_He>>
       /\ Cardinality(At(f, "onChunk")) = 3

\* the steps onChunk receives for a chunk sequence: one per chunk with text, carrying
\* that chunk's id, text and own usage
RECURSIVE ChunkSteps(_)
ChunkSteps(cs) ==
    IF cs = <<>> THEN <<>>
    ELSE LET c == Head(cs)
         IN (IF HasText(c)
             THEN <<[id |-> IdOf(c), type |-> "text", content |-> Get(c.text),
                     role |-> "assistant",
                     usage |-> IF Present(c.usageMetadata)
                               THEN Some(UsageOf(c.usageMetadata)) ELSE None]>>
             ELSE <<>>) \o ChunkSteps(Tail(cs))

\* C8: with two calls interleaved on one provider, everything a call emits, accumulates
\* and delivers is what its own chunk sequence and options determine.
C8_Independent ==
    \A s \in Streams :
        LET f == call[s]
            own == SubSeq(f.chunks, 1, f.processed)
            st == streamState[StateKey(s)]
        IN f.pc # "idle" =>
             /\ ArgsOf(f, "enqueue") = NonEmptyTexts(own)
             /\ st.accumulatedText = ConcatAll(NonEmptyTexts(own))
             /\ st.finalUsage = LastUsage(f.chunks)
             /\ ArgsOf(f, "onChunk") = (IF f.opts.onChunk THEN ChunkSteps(own) ELSE <<>>)
             /\ \A i \in At(f, "onStepFinish") :
                  f.log[i].arg = [id |-> "", type |-> "text",
                                  content |-> ConcatAll(NonEmptyTexts(f.chunks)),
                                  role |-> "assistant", usage |-> LastUsage(f.chunks)]
             /\ \A i \in At(f, "onFinish") :
                  f.log[i].arg = [text |-> ConcatAll(NonEmptyTexts(f.chunks))]

C8_Witness ==
    /\ call[1].pc = "onChunk" /\ call[2].pc = "onChunk"
    /\ Len(call[1].chunks) = 2 /\ Len(call[2].chunks) = 2
    /\ streamState[StateKey(1)].accumulatedText = Hello
    /\ streamState[StateKey(2)].accumulatedText = Str_llo \o Str_He
    /\ streamState[StateKey(1)].finalUsage = Some(Usage325)

\* C9: generateText returns the response text, or "" when it is undefined (never
\* undefined); the usage extracted from the response's usage metadata; and the first
\* candidate's finish reason, absent when there are no candidates.
C9_GenerateTextResult ==
    gen.pc = "returned" =>
        LET r == Get(gen.resp)
            out == Get(gen.result)
        IN /\ IsSome(gen.result)
           /\ out.provider = r
           /\ IsSome(out.text)
           /\ Get(out.text) = (IF IsSome(r.text) THEN Get(r.text) ELSE EmptyStr)
           /\ out.usage = (IF Present(r.usageMetadata)
                           THEN Some(UsageOf(r.usageMetadata)) ELSE None)
           /\ (~IsSome(r.candidates) \/ r.candidates = Some(<<>>)
                 => out.finishReason = None)
           /\ (IsSome(r.candidates) /\ r.candidates # Some(<<>>)
                 => out.finishReason = Get(r.candidates)[1].finishReason)

C9_Witness ==
    /\ gen.pc = "returned"
    /\ Get(gen.resp).text = Some(Str_Hi)
    /\ Get(gen.resp).usageMetadata = Some(Meta(Some(10), Some(5), Some(15)))
    /\ Get(gen.resp).candidates =
         Some(<<Candidate(Some("MAX_TOKENS")), Candidate(Some("STOP"))>>)
    /\ Get(gen.result).text = Some(Str_Hi)
    /\ Get(gen.result).usage =
         Some([promptTokens |-> 10, completionTokens |-> 5, totalTokens |-> 15])
    /\ Get(gen.result).finishReason = Some("MAX_TOKENS")

\* C10 (as stated): with onStepFinish registered, generateText invokes it before it
\* returns, exactly once with the step {id = the response id, type text, content =
\* the response text, role assistant, usage = the extracted usage} when the response
\* text is non-empty, and not at all when the text is empty or undefined.
C10_StepOnce ==
    gen.onStepFinish /\ gen.pc \in {"onStepFinish", "returned", "failed"}
                     /\ IsSome(gen.resp) =>
        LET r == Get(gen.resp)
        IN gen.log =
             (IF HasText(r)
              THEN <<Event("onStepFinish",
                           [id |-> IdOf(r), type |-> "text", content |-> Get(r.text),
                            role |-> "assistant",
                            usage |-> IF Present(r.usageMetadata)
                                      THEN Some(UsageOf(r.usageMetadata)) ELSE None])>>
              ELSE <<>>)

\* C11 (as stated): the usage generateText reports is absent exactly when the usage
\* metadata is absent or all three counts, missing ones taken as 0, are zero;
\* otherwise it is present with exactly those three counts, each a defined
\* non-negative integer.
C11_UsageReported ==
    gen.pc = "returned" =>
        LET m == Get(gen.resp).usageMetadata
            u == Get(gen.result).usage
        IN /\ (~IsSome(u) <=> ~Present(m))
           /\ (IsSome(u) =>
                 /\ Get(u).promptTokens >= 0
                 /\ Get(u).completionTokens >= 0
                 /\ Get(u).totalTokens >= 0
                 /\ Get(u) = UsageOf(m))

\* the config of the request that was submitted: an object, or undefined
SentConfig == Get(request.params).config

\* the knobs and bag the call was given
GivenOptions == providerOptionsOf(request.provider)

GivenBag ==
    IF IsSome(GivenOptions.extraOptions) THEN Get(GivenOptions.extraOptions)
    ELSE EmptyObject

\* every knob the class names and every extra option of the call is undefined
AllUndefined(K) ==
    /\ \A k \in K : ~IsSome(Lookup(GivenOptions, k))
    /\ \A k \in DOMAIN GivenBag : ~IsSome(GivenBag[k])

\* C12 (as stated): the request generateText and streamText of part_000 submit has no
\* config key whose value is undefined, and no config at all when every named knob
\* and every extra option is undefined.
C12_NoUndefinedConfig ==
    provider.impl = "part_000" /\ request.pc = "submitted" =>
        /\ IsSome(SentConfig) =>
             \A k \in DOMAIN Get(SentConfig) : IsSome(Get(SentConfig)[k])
        /\ AllUndefined(Knobs) => ~IsSome(SentConfig)

\* the knobs the specification names
NamedKnobs ==
    {"temperature", "topP", "topK", "stopSequences", "seed", "presencePenalty",
     "frequencyPenalty", "maxOutputTokens", "candidateCount", "responseMimeType",
     "responseSchema", "safetySettings"}

\* the value the claim expects for a key: the bag's if the bag defines it
ExpectedValue(k) ==
    IF k \in DOMAIN GivenBag THEN GivenBag[k] ELSE Lookup(GivenOptions, k)

\* C13 (as stated): the config sent contains every named knob whose value is defined,
\* and every key the bag defines, the bag's value winning; generateText and
\* streamText build the same config from the same options.
C13_ConfigComplete ==
    request.pc = "submitted" =>
        /\ \A k \in NamedKnobs \cup DOMAIN GivenBag :
             IsSome(ExpectedValue(k)) =>
                /\ IsSome(SentConfig)
                /\ k \in DOMAIN Get(SentConfig)
                /\ Get(SentConfig)[k] = ExpectedValue(k)
        /\ configOf(provider.impl, "generateText", GivenOptions)
             = configOf(provider.impl, "streamText", GivenOptions)

\* the contents of the request that was submitted, and the messages of the call
SentContents == Get(request.params).contents
GivenMessages == request.messages

OnlyTextParts(content) ==
    /\ content.kind = "parts"
    /\ Len(content.parts) > 0
    /\ \A j \in 1..Len(content.parts) : content.parts[j].type = "text"

NoTextPart(content) ==
    /\ content.kind = "parts"
    /\ \A j \in 1..Len(content.parts) : content.parts[j].type # "text"

\* C14: the contents of a submitted request have the length and the order of the
\* caller's messages; a message with string content becomes exactly one text part
\* with that string, and a structured message made of text parts (at least one)
\* becomes parts of the same count, order and texts.
C14_ContentsInOrder ==
    request.pc = "submitted" =>
        /\ Len(SentContents) = Len(GivenMessages)
        /\ \A i \in 1..Len(GivenMessages) :
             LET content == GivenMessages[i].content
                 parts == SentContents[i].parts
             IN /\ content.kind = "string" => parts = <<[text |-> content.text]>>
                /\ OnlyTextParts(content) =>
                     /\ Len(parts) = Len(content.parts)
                     /\ \A j \in 1..Len(parts) : parts[j] = [text |-> content.parts[j].text]

C14_Witness ==
    /\ request.pc = "submitted"
    /\ Len(GivenMessages) = 2
    /\ GivenMessages[1].content = StringContent(Str_He)
    /\ GivenMessages[2].content = PartsContent(<<TextPart(Str_He), TextPart(Str_llo)>>)
    /\ SentContents[1].parts = <<[text |-> Str_He]>>
    /\ SentContents[2].parts = <<[text |-> Str_He], [text |-> Str_llo]>>

\* C15 (as stated): a structured message without a text part, an empty part list
\* included, is translated to exactly one part with the empty text, and no translated
\* parts list is empty.
C15_EmptyFallback ==
    request.pc = "submitted" =>
        \A i \in 1..Len(GivenMessages) :
            /\ NoTextPart(GivenMessages[i].content) =>
                 SentContents[i].parts = <<[text |-> EmptyStr]>>
            /\ Len(SentContents[i].parts) > 0

\* C16: user is sent as user, and assistant, system and tool as model, none of the
\* four raising an error; every content of a submitted request has role user or model.
C16_RoleMapping ==
    /\ request.pc = "submitted" =>
         \A i \in 1..Len(GivenMessages) :
             /\ SentContents[i].role \in {"user", "model"}
             /\ GivenMessages[i].role = "user" => SentContents[i].role = "user"
             /\ GivenMessages[i].role \in {"assistant", "system", "tool"} =>
                  SentContents[i].role = "model"
    /\ (\A i \in 1..Len(GivenMessages) : GivenMessages[i].role \in KnownRoles) =>
         request.err # Some("InvalidRole")

C16_Witness ==
    /\ request.pc = "submitted"
    /\ Len(GivenMessages) = 2
    /\ GivenMessages[1].role = "tool"
    /\ GivenMessages[2].role = "system"
    /\ GivenMessages[1].content.kind = "string"
    /\ GivenMessages[2].content = PartsContent(<<ImagePart>>)
    /\ SentContents[1].role = "model"
    /\ SentContents[2].role = "model"

HasUnknownRole == \E i \in 1..Len(GivenMessages) : GivenMessages[i].role \notin KnownRoles

\* C17 (as stated): a generateText or streamText call with a message of a role other
\* than user, assistant, system, tool fails with an unsupported-role error, without
\* a backend call.
C17_UnknownRoleFails ==
    request.op \in {"generateText", "streamText"} /\ HasUnknownRole =>
        /\ request.pc = "failed"
        /\ request.backendCalls = 0

\* C17 (amended): such a message is sent with role user and the call goes on to the
\* backend; no role makes the translation fail.
C17_UnknownRoleDefaultsToUser ==
    /\ request.err # Some("InvalidRole")
    /\ request.pc = "submitted" =>
         /\ request.backendCalls = 1
         /\ \A i \in 1..Len(GivenMessages) :
              GivenMessages[i].role \notin KnownRoles => SentContents[i].role = "user"
    /\ request.op \in {"generateText", "streamText"} /\ HasUnknownRole
         /\ ~(provider.impl = "index" /\ request.op = "streamText") =>
         request.pc = "submitted"

C17_Witness ==
    /\ request.pc = "submitted"
    /\ request.op = "generateText"
    /\ Len(GivenMessages) = 2
    /\ GivenMessages[1].role = "function"
    /\ GivenMessages[1].content.kind = "string"
    /\ GivenMessages[2].role = "assistant"
    /\ SentContents[1].role = "user"
    /\ request.backendCalls = 1

\* C18: the constructor throws the configuration error exactly when the options hold
\* neither a non-empty API key nor vertexai true with a non-empty project and a
\* non-empty location; otherwise it creates the backend client, once; after a failed
\* construction there is no client and no call is ever made.
C18_ConstructorGuard ==
    /\ provider.state # "none" =>
         LET o == Get(provider.options)
             key == o.apiKey \notin {None, Some(EmptyStr)}
             triple == /\ o.vertexai = Some(TRUE)
                       /\ o.project \notin {None, Some(EmptyStr)}
                       /\ o.location \notin {None, Some(EmptyStr)}
         IN /\ provider.state = "failed" <=> ~key /\ ~triple
            /\ provider.state = "failed" =>
                 /\ provider.err = Some("ConfigurationError")
                 /\ provider.ai = None
                 /\ provider.clients = 0
            /\ provider.state = "constructed" =>
                 /\ provider.err = None
                 /\ provider.ai = Some(o)
                 /\ provider.clients = 1
    /\ provider.state # "constructed" => request = IdleRequest

C18_Witness ==
    /\ provider.state = "failed"
    /\ Get(provider.options).apiKey = Some(EmptyStr)
    /\ Get(provider.options).vertexai = Some(TRUE)
    /\ Get(provider.options).project = Some(Str_p)
    /\ Get(provider.options).location = None
    /\ provider.err = Some("ConfigurationError")

\* C19: a generateText whose backend call failed has failed with that error, without
\* an onStepFinish invocation and without a result; one whose onStepFinish threw has
\* failed with that error, without a result; a streamText whose submission failed
\* has failed with that error without a stream, a callback or accumulated state.
C19_ErrorsPropagate ==
    /\ gen.err = Some("BackendError") =>
         /\ gen.pc = "failed"
         /\ gen.log = <<>>
         /\ gen.result = None
    /\ gen.err = Some("CallbackError") =>
         /\ gen.pc = "failed"
         /\ gen.result = None
         /\ Len(gen.log) = 1
    /\ gen.pc = "returned" => gen.err = None
    /\ call[1].err = Some("BackendError") =>
         /\ call[1].pc = "failed"
         /\ call[1].rs = "none"
         /\ call[1].log = <<>>
         /\ call[1].inflight = {}
         /\ streamState[StateKey(1)] = FreshState

C19_Witness ==
    /\ gen.pc = "failed"
    /\ gen.onStepFinish
    /\ gen.err = Some("CallbackError")
    /\ gen.log # <<>>
    /\ call[1].pc = "failed"
    /\ call[1].err = Some("BackendError")
    /\ call[1].opts = AllCallbacks

\* C20 (as stated): generateObject and streamObject fail with the not-implemented
\* error without a backend call or a callback, and no other operation does.
C20_OnlyObjectsUnimplemented ==
    /\ request.op \in {"generateObject", "streamObject"} =>
         /\ request.pc = "failed"
         /\ request.err = Some("NotImplemented")
         /\ request.backendCalls = 0
         /\ request.callbacks = 0
    /\ request.op \in {"generateText", "streamText"} =>
         request.err # Some("NotImplemented")

\* a stream that ran to its end without an error
Successful(f) == f.pc = "done" /\ f.err = None

\* C21: in a successful stream with onChunk and onStepFinish registered, onChunk has
\* received exactly one step per chunk with non-empty text, carrying that chunk's own
\* text and own usage, and none for a chunk without text, whose usage is captured
\* all the same; onStepFinish has received exactly one terminal step, with the
\* accumulated text (empty or not) and the last usage reported.
C21_StepsPerChunk ==
    LET f == call[1]
        st == streamState[StateKey(1)]
        steps == ArgsOf(f, "onChunk")
        withText == {i \in 1..Len(f.chunks) : HasText(f.chunks[i])}
    IN Successful(f) /\ f.opts.onChunk /\ f.opts.onStepFinish =>
         /\ Len(steps) = Cardinality(withText)
         /\ steps = ChunkSteps(f.chunks)
         /\ \A i \in 1..Len(f.chunks) :
              ~HasText(f.chunks[i]) /\ Present(f.chunks[i].usageMetadata)
                /\ (\A j \in (i + 1)..Len(f.chunks) : ~Present(f.chunks[j].usageMetadata)) =>
                  st.finalUsage = Some(UsageOf(f.chunks[i].usageMetadata))
         /\ ArgsOf(f, "onStepFinish") =
              <<[id |-> "", type |-> "text",
                 content |-> ConcatAll(NonEmptyTexts(f.chunks)),
                 role |-> "assistant", usage |-> LastUsage(f.chunks)]>>

C21_Witness ==
    LET f == call[1]
    IN /\ Successful(f)
       /\ f.opts.onChunk /\ f.opts.onStepFinish
       /\ f.chunks = <<Chunk(Some(Str_He), None, FALSE, Some("r1")),
                       Chunk(Some(Str_llo), Some(Meta(Some(3), Some(2), Some(5))), FALSE, None),
                       Chunk(Some(EmptyStr), Some(Meta(Some(1), None, None)), FALSE, None)>>
       /\ Len(ArgsOf(f, "onChunk")) = 2
       /\ ArgsOf(f, "onChunk")[2].content = Str_llo
       /\ ArgsOf(f, "onChunk")[2].usage = Some(Usage325)
       /\ ArgsOf(f, "onStepFinish")[1].content = Hello
       /\ ArgsOf(f, "onStepFinish")[1].usage =
            Some([promptTokens |-> 1, completionTokens |-> 0, totalTokens |-> 0])

\* C22: processing a chunk that carries prompt feedback leaves the accumulated text,
\* the final usage, the output stream, the history of callbacks and controller calls
\* and the error state exactly as processing the same chunk without prompt feedback
\* does: the stream keeps its state and onError is not invoked on its account, also
\* in the part of the processing that runs after onChunk returned.
C22_PromptFeedbackFrame ==
    [][LET f == call[1]
           g == call'[1]
       IN /\ Len(g.chunks) = Len(f.chunks) + 1 /\ g.chunks[Len(g.chunks)].promptFeedback =>
               LET c == g.chunks[Len(g.chunks)]
                   r == _processStreamChunk(f, streamState[StateKey(1)],
                                            [c EXCEPT !.promptFeedback = FALSE])
               IN /\ streamState'[StateKey(1)] = r[2]
                  /\ g.log = r[1].log
                  /\ g.rs = r[1].rs
                  /\ g.rs = f.rs
                  /\ g.pc = r[1].pc
                  /\ g.err = r[1].err
                  /\ g.storedError = r[1].storedError
                  /\ g.inflight = r[1].inflight
          /\ f.pc = "onChunk" /\ g.pc # "onChunk" /\ g.pending # Some("CallbackError") =>
               /\ g.pc = "loop"
               /\ g.log = f.log
               /\ g.rs = f.rs
               /\ g.err = f.err
               /\ streamState' = streamState]_vars

C22_Witness ==
    LET f == call[1]
    IN /\ f.opts = AllCallbacks
       /\ f.pc = "loop"
       /\ f.rs = "readable"
       /\ f.err = None
       /\ f.warnings = 2
       /\ f.chunks = <<Chunk(None, Some(Meta(Some(0), Some(0), Some(0))), TRUE, None),
                       Chunk(Some(Str_He), Some(Meta(Some(1), None, None)), TRUE, Some("r2"))>>
       /\ f.log[Len(f.log)].ev = "onChunk"
       /\ At(f, "onError") = {}
       /\ streamState[StateKey(1)].accumulatedText = Str_He

Terminal(f) == f.rs \in {"closed", "errored"}

\* controller.close() was called while chunks were unread: the stream closes with the
\* read of the last of them
Closing(f) == f.rs = "readable" /\ f.closeRequested /\ f.queue > 0

\* a terminal stream stays as it is, and the controller closes the stream at most once
TerminalIsStable ==
    [][/\ call[1].rs = "closed" => call'[1].rs = "closed"
       /\ call[1].rs = "errored" => call'[1].rs = "errored"
       /\ Cardinality(At(call'[1], "controller.close")) <= 1]_vars

\* C23 (as stated): a stream that was started ends with its output stream closed or
\* errored; a closed stream stays closed and an errored stream stays errored.
C23_Terminates ==
    /\ (call[1].pc # "idle") ~> Terminal(call[1])
    /\ TerminalIsStable

\* C23 (amended): a stream that was started reaches the end of start() with its output
\* stream errored, closed, or closing: while chunks enqueued earlier are unread the
\* stream stays readable with its close requested, and it is closed by the read of
\* the last unread chunk or by a cancel. Closed and errored are stable.
C23_EndsClosing ==
    /\ (call[1].pc # "idle") ~>
          (call[1].pc = "done" /\ (Terminal(call[1]) \/ Closing(call[1])))
    /\ [](call[1].closeRequested /\ call[1].rs = "readable" => call[1].queue > 0)
    /\ [][Closing(call[1]) =>
            \/ call'[1] = call[1]
            \/ Closing(call'[1]) /\ call'[1].queue = call[1].queue - 1
            \/ call'[1].rs = "closed"]_vars
    /\ TerminalIsStable

C23_Witness ==
    LET f == call[1]
    IN /\ f.pc = "done"
       /\ f.err = None
       /\ Closing(f)
       /\ f.queue = 2
       /\ f.opts = AllCallbacks
       /\ f.log[Len(f.log)].ev = "controller.close"
       /\ At(f, "onFinish") # {}

Terminals(f) == At(f, "onStepFinish") \cup At(f, "onFinish") \cup At(f, "controller.close")

\* the state of a stream in which a caller callback threw
C24_AfterCallbackError ==
    LET f == call[1]
        E == At(f, "onError")
        X == At(f, "controller.error")
    IN f.err = Some("CallbackError") =>
         /\ Cardinality(E) = (IF f.opts.onError THEN 1 ELSE 0)
         /\ \A i \in E \cup X : f.log[i].arg = "CallbackError"
         /\ Before(At(f, "chunk") \cup At(f, "onChunk") \cup Terminals(f), E \cup X)
         /\ Before(E, X)
         /\ At(f, "controller.close") = {}
         /\ f.rs # "closed" \/ f.cancelled
         /\ Cardinality(X) <= 1
         /\ (f.pc = "done" =>
               /\ (X = {} => E # {})
               /\ (~f.cancelled => f.rs = "errored" /\ f.storedError # None))

\* C24: when onChunk, the terminal onStepFinish or onFinish throws, the error takes the
\* path of a backend error: after the for-await loop has closed the generator (for
\* onChunk), the next thing start() does is onError (if registered) with that error and
\* then the erroring of the output stream (of a stream that was not cancelled), which
\* is never closed; from the throw on no chunk is consumed and no onChunk, terminal
\* step or finish event is delivered: onFinish never follows a throwing
\* onStepFinish, and no terminal step follows a throwing onChunk.
C24_CallbackErrorHandled ==
    /\ []C24_AfterCallbackError
    /\ [][LET f == call[1]
              g == call'[1]
          IN /\ f.pc = "onChunk" /\ g.pending # None =>
                  /\ g.pending = Some("CallbackError")
                  /\ g.pc = "generator.return"
                  /\ g.log = f.log
                  /\ g.chunks = f.chunks
             /\ f.err = None /\ g.err = Some("CallbackError") =>
                  /\ f.pc \in {"generator.return", "onStepFinish", "onFinish"}
                  /\ g.chunks = f.chunks
                  /\ g.log = (IF f.opts.onError
                              THEN Append(f.log, Event("onError", "CallbackError"))
                              ELSE Append(f.log, Event("controller.error", "CallbackError")))
                  /\ (f.pc = "generator.return" => Terminals(g) = {})
                  /\ (f.pc = "onStepFinish" => At(g, "onFinish") = {})
             /\ f.err = Some("CallbackError") \/ f.pending = Some("CallbackError") =>
                  /\ g.err = f.err \/ (f.err = None /\ g.err = Some("CallbackError"))
                  /\ g.chunks = f.chunks
                  /\ At(g, "chunk") = At(f, "chunk")
                  /\ At(g, "onChunk") = At(f, "onChunk")
                  /\ Terminals(g) = Terminals(f)]_vars

C24_Witness ==
    LET f == call[1]
    IN /\ f.pc = "done"
       /\ f.err = Some("CallbackError")
       /\ f.opts = AllCallbacks
       /\ ~f.cancelled
       /\ Len(f.chunks) = 2
       /\ At(f, "onStepFinish") # {}
       /\ At(f, "onFinish") = {}
       /\ At(f, "onError") # {}
       /\ f.rs = "errored"
       /\ f.storedError = Some("CallbackError")

====
